---- MODULE Spec2Model ----
(***************************************************************************)
(* Backtest engine of backtest-dj.                                         *)
(*                                                                         *)
(*   SpecLoop    the hand-rolled SMA-crossover loop, views.simple_backtest *)
(*   SpecRun     the two entry points, services.backtest.run_backtest and  *)
(*               views.run_backtest_from_params, step by step              *)
(*   SpecBt      SmaCross and LaBomba driven bar by bar by Backtest.run    *)
(*   SpecMetrics compute_metrics and sanitize_series as functions of their *)
(*               input                                                     *)
(*   SpecTwice   simple_backtest and Backtest.run, each run a second time  *)
(*               on the same series, strategy and capital                  *)
(*                                                                         *)
(* Money is kept in hundredths of a currency unit and the commission rate  *)
(* in percent, so that every product the code forms is an exact integer.   *)
(* A moving average of window n is kept as the window's sum; two averages  *)
(* are compared by cross-multiplying with the window lengths.              *)
(***************************************************************************)
EXTENDS Integers, Sequences, FiniteSets, TLC

VARIABLES
    args,         \* simple_backtest's arguments: df, n1, n2, initial_cash, commission
    df,           \* the local frame after rolling means, dropna, signal, position_change
    i,            \* loop index into df (1-based)
    cash,         \* hundredths
    position,     \* units held
    equity_list,  \* one record per processed row
    trades,       \* buy/sell records
    pc,           \* "start" | "loop" | "build" | "returned" | "KeyError"
    \* -- an entry point call
    req,            \* entry point and validated_data: startDate, endDate, strategy
    rpc,            \* the statement the call is at
    strategy_class, \* what create_strategy returned
    stats,          \* what bt.run() returned
    response,       \* the locals metrics, price_chart_data, equity_chart_data
    outcome,        \* what the caller gets: a dict, or a raised exception
    db,             \* rows of BacktestRun, Trade, EquityPoint
    reached,        \* the stages the call has entered
    \* -- a call of compute_metrics or sanitize_series
    minput,         \* the function called and its argument
    moutput,        \* the value returned, once it has returned
    \* -- a strategy class run by Backtest(df, strategy_class, cash, commission=0.0)
    bt,             \* the strategy class, the bars after the warm-up, the cash
    bi,             \* the bar the run is at (1-based)
    orders,         \* orders placed by the strategy, not yet processed
    bt_trades,      \* open trades, oldest first
    closed_trades,  \* closed trades
    bt_cash,        \* the broker's cash
    bt_equity,      \* equity marked at each processed bar
    bpc,            \* "broker" | "strategy" | "done"
    \* -- two runs on the same input, one after the other
    run_no,         \* 1 during the first run, 2 during the second
    first,          \* what the first run returned, once the second has begun
    given           \* the price series as the caller passed it to the first run

loopVars == <<args, df, i, cash, position, equity_list, trades, pc>>
runVars == <<req, rpc, strategy_class, stats, response, outcome, db, reached>>
metVars == <<minput, moutput>>
btVars == <<bt, bi, orders, bt_trades, closed_trades, bt_cash, bt_equity, bpc>>
sessVars == <<run_no, first, given>>
vars == <<loopVars, runVars, metVars, btVars, sessVars>>

----------------------------------------------------------------------------
(* Bounds of the inputs *)

MaxBars == 4

\* Close prices, and the Open prices a bar may have
Prices == {1, 2, 3}
OpenPrices == {1, 3}
\* n1, n2 as passed by a caller: any positive window
Windows == {1, 2, 3}
\* initial_cash in currency units; 2 cannot buy one unit at the top price
Capitals == {2, 7}
\* commission in percent
Commissions == {0, 10}

\* a rolling mean: not yet available, or the sum of its window
NaN == [nan |-> TRUE, sum |-> 0]
Num(s) == [nan |-> FALSE, sum |-> s]

Bar == [date : 1..MaxBars, Open : OpenPrices, Close : Prices]

\* A frame as the data provider returns it: rows by ascending, unique date.
Frames ==
    UNION { { f \in [1..n -> Bar] : \A k \in 1..n : f[k].date = k } : n \in 0..MaxBars }

\* Longer series, long enough for several crossovers: every Open is the low
\* price and every Close the low or the high one.
MaxLongBars == 6
LongFrames ==
    { [k \in 1..MaxLongBars |-> [date |-> k, Open |-> 1, Close |-> c[k]]] :
        c \in [1..MaxLongBars -> {1, 3}] }

\* A longer series for one fixed call: ten bars with strictly increasing
\* prices, fast window 2, slow window 4, capital for several units, no fees.
RisingFrame == [k \in 1..10 |-> [date |-> k, Open |-> k, Close |-> k]]
ScenarioB ==
    [df |-> RisingFrame, n1 |-> 2, n2 |-> 4, initial_cash |-> 100, commission |-> 0]

----------------------------------------------------------------------------
(* Helpers of simple_backtest *)

RECURSIVE SumTo(_, _, _)
SumTo(f, lo, hi) == IF lo > hi THEN 0 ELSE f[hi].Close + SumTo(f, lo, hi - 1)

\* df["Close"].rolling(n).mean() at row k: NaN while the window is not full,
\* otherwise the window's sum (the mean times n).
Rolling(f, n, k) == IF k < n THEN NaN ELSE Num(SumTo(f, k - n + 1, k))

\* df.copy().sort_index(): rows by ascending date (selection of the minimum).
RECURSIVE SortIndex(_)
SortIndex(f) ==
    IF Len(f) = 0 THEN << >>
    ELSE LET m == CHOOSE k \in 1..Len(f) : \A j \in 1..Len(f) : f[k].date <= f[j].date
             rest == [j \in 1..(Len(f) - 1) |-> IF j < m THEN f[j] ELSE f[j + 1]]
         IN  <<f[m]>> \o SortIndex(rest)

\* rows with both rolling means attached
WithSma(f, n1, n2) ==
    [k \in 1..Len(f) |->
        [date |-> f[k].date, Open |-> f[k].Open, Close |-> f[k].Close,
         sma1 |-> Rolling(f, n1, k), sma2 |-> Rolling(f, n2, k)]]

\* df.dropna(subset=["sma1", "sma2"]): keep the rows where both are numbers
DropNa(f) == SelectSeq(f, LAMBDA r : ~r.sma1.nan /\ ~r.sma2.nan)

\* np.where(df["sma1"] > df["sma2"], 1, 0) on the means sum/n
Signal(r, n1, n2) == IF r.sma1.sum * n2 > r.sma2.sum * n1 THEN 1 ELSE 0

PositionChange_Level(f, n1, n2, k) == IF k = 1 THEN 0 ELSE Signal(f[k], n1, n2)

PositionChange_NoFillna(f, n1, n2, k) ==
    IF k = 1 THEN Signal(f[k], n1, n2) ELSE Signal(f[k], n1, n2) - Signal(f[k - 1], n1, n2)

\* df["signal"].diff().fillna(0)
PositionChange(f, n1, n2, k) ==
    IF k = 1 THEN 0 ELSE Signal(f[k], n1, n2) - Signal(f[k - 1], n1, n2)

PrepareFrame(f, n1, n2) ==
    LET d == DropNa(WithSma(SortIndex(f), n1, n2))
    IN  [k \in 1..Len(d) |->
            [date |-> d[k].date, Open |-> d[k].Open, Close |-> d[k].Close,
             sma1 |-> d[k].sma1, sma2 |-> d[k].sma2,
             signal |-> Signal(d[k], n1, n2),
             position_change |-> PositionChange(d, n1, n2, k)]]

CallerFrame_InPlace(f, n1, n2) ==
    LET w == IF n1 >= n2 THEN n1 ELSE n2
    IN  IF Len(f) < w THEN << >> ELSE SubSeq(f, w, Len(f))

\* The caller's frame after the call: the rolling columns, the in-place dropna
\* and the signal columns are applied to df.copy(), so it is left as it was.
CallerFrame(f, n1, n2) == f

\* next row's Open when there is one, otherwise this row's Close
ExecPrice(f, k) == IF k + 1 <= Len(f) THEN f[k + 1].Open ELSE f[k].Close

Shares_NoCommission(c, comm, price) == c \div (100 * price)

\* int((cash * (1 - commission)) // exec_price), cash in hundredths, c in percent
Shares(c, comm, price) == (c * (100 - comm)) \div (10000 * price)

----------------------------------------------------------------------------
(* simple_backtest as a state machine *)

None == "None"

\* the entry-point variables while no entry point is being called
RunIdle ==
    /\ req = None
    /\ rpc = "idle"
    /\ strategy_class = None
    /\ stats = None
    /\ response = None
    /\ outcome = None
    /\ db = None
    /\ reached = {}

\* the strategy-run variables while no strategy is being run
BtIdle ==
    /\ bt = None
    /\ bi = 0
    /\ orders = << >>
    /\ bt_trades = << >>
    /\ closed_trades = << >>
    /\ bt_cash = 0
    /\ bt_equity = << >>
    /\ bpc = "idle"

\* a first run; no series is tracked outside simple_backtest
FirstRun ==
    /\ run_no = 1
    /\ first = << >>

\* the metric variables while neither function is being called
MetIdle ==
    /\ minput = None
    /\ moutput = << >>

InitLoop ==
    /\ args \in [df : Frames \cup LongFrames, n1 : Windows, n2 : Windows,
                 initial_cash : Capitals, commission : Commissions] \cup {ScenarioB}
    /\ df = << >>
    /\ i = 1
    /\ cash = 0
    /\ position = 0
    /\ equity_list = << >>
    /\ trades = << >>
    /\ pc = "start"
    /\ RunIdle
    /\ MetIdle
    /\ BtIdle
    /\ FirstRun
    /\ given = args.df

\* lines 70-82
Prepare ==
    /\ pc = "start"
    /\ df' = PrepareFrame(args.df, args.n1, args.n2)
    /\ cash' = args.initial_cash * 100
    /\ position' = 0
    /\ equity_list' = << >>
    /\ trades' = << >>
    /\ i' = 1
    /\ pc' = "loop"
    /\ args' = [args EXCEPT !.df = CallerFrame(args.df, args.n1, args.n2)]
    /\ UNCHANGED <<sessVars, runVars, metVars, btVars>>

\* lines 84-122, one iteration
LoopBar ==
    /\ pc = "loop"
    /\ i <= Len(df)
    /\ LET row == df[i]
           exec_price == ExecPrice(df, i)
           comm == args.commission
           shares == Shares(cash, comm, exec_price)
           buy == row.position_change = 1 /\ shares > 0
           sell == row.position_change = -1 /\ position > 0
           cash1 == IF buy THEN cash - shares * exec_price * (100 + comm)
                    ELSE IF sell THEN cash + position * exec_price * (100 - comm)
                    ELSE cash
           position1 == IF buy THEN position + shares
                        ELSE IF sell THEN 0
                        ELSE position
           trades1 == IF buy
                      THEN Append(trades, [date |-> row.date, type |-> "buy",
                                           price |-> exec_price, shares |-> shares])
                      ELSE IF sell
                      THEN Append(trades, [date |-> row.date, type |-> "sell",
                                           price |-> exec_price, shares |-> position])
                      ELSE trades
       IN  /\ cash' = cash1
           /\ position' = position1
           /\ trades' = trades1
           /\ equity_list' = Append(equity_list,
                  [date |-> row.date, equity |-> cash1 + position1 * row.Close * 100,
                   cash |-> cash1, position |-> position1])
    /\ i' = i + 1
    /\ UNCHANGED <<sessVars, args, df, pc, runVars, metVars, btVars>>

\* the loop is exhausted
LoopEnd ==
    /\ pc = "loop"
    /\ i > Len(df)
    /\ pc' = "build"
    /\ UNCHANGED <<sessVars, args, df, i, cash, position, equity_list, trades, runVars, metVars, btVars>>

\* lines 124-125: pd.DataFrame(equity_list).set_index("date") raises KeyError on
\* an empty list (the frame has no "date" column); otherwise the triple is returned
BuildEquity ==
    /\ pc = "build"
    /\ pc' = IF Len(equity_list) = 0 THEN "KeyError" ELSE "returned"
    /\ UNCHANGED <<sessVars, args, df, i, cash, position, equity_list, trades, runVars, metVars, btVars>>

NextLoop == Prepare \/ LoopBar \/ LoopEnd \/ BuildEquity

SpecLoop == InitLoop /\ [][NextLoop]_vars

----------------------------------------------------------------------------
(* The entry points run_backtest and run_backtest_from_params *)

MaxRows == 2

EntryPoints == {"run_backtest", "run_backtest_from_params"}
Dates == {1, 2}
StrategyNames ==
    {"SMA", "EMA", "RSI", "MACD", "LA_BOMBA", "buy_and_hold", "sma_cross",
     "la_bomba", "factory", "golden_cross"}

\* Exception subclasses the library, the chart code and the database can raise
Exceptions == {"ValueError", "KeyError", "DatabaseError"}

STRATEGY_MAP ==
    [n \in {"SMA", "EMA", "RSI", "MACD", "LA_BOMBA", "buy_and_hold", "sma_cross"} |->
        CASE n = "SMA" -> "sma_cross"
          [] n = "EMA" -> "sma_cross"
          [] n = "RSI" -> "rsi"
          [] n = "MACD" -> "macd"
          [] n = "LA_BOMBA" -> "la_bomba"
          [] n = "buy_and_hold" -> "buy_and_hold"
          [] n = "sma_cross" -> "sma_cross"]

\* STRATEGY_MAP.get(name, name)
resolve_strategy_name(n) == IF n \in DOMAIN STRATEGY_MAP THEN STRATEGY_MAP[n] ELSE n

\* the modules of the package core.strategies and the names each one binds
StrategyModules ==
    [m \in {"sma_cross", "la_bomba", "factory"} |->
        CASE m = "sma_cross" -> {"Strategy", "crossover", "SMA", "SmaCross"}
          [] m = "la_bomba" -> {"Strategy", "crossover", "SMA", "LaBomba"}
          [] m = "factory" -> {"importlib", "create_strategy"}]

\* "".join(word.capitalize() for word in strategy_name.split("_"))
ClassName(n) ==
    CASE n = "sma_cross" -> "SmaCross"
      [] n = "la_bomba" -> "LaBomba"
      [] n = "buy_and_hold" -> "BuyAndHold"
      [] n = "golden_cross" -> "GoldenCross"
      [] n = "factory" -> "Factory"
      [] n = "rsi" -> "Rsi"
      [] n = "macd" -> "Macd"
      [] OTHER -> n

\* import_module raises ImportError, getattr raises AttributeError; both are
\* caught and the function falls off its end, returning None
create_strategy(n) ==
    IF n \notin DOMAIN StrategyModules THEN None
    ELSE IF ClassName(n) \notin StrategyModules[n] THEN None
    ELSE ClassName(n)

DatesInvalid_Strict(start, end) == start > end

\* if start >= end
DatesInvalid(start, end) == start >= end

NotFound_Never(cls) == FALSE

\* if not strategy_class
NotFound(cls) == cls = None

PersistCatches_ValueErrorOnly(exc) == exc = "ValueError"

\* persistence: except Exception
PersistCatches(exc) == exc \in Exceptions

\* run_backtest: except ValueError as e / except Exception as e
run_backtest_except(exc) ==
    [error |-> IF exc = "ValueError" THEN "str(e)"
               ELSE "An unexpected error occurred during backtest execution."]

\* An exception leaving a statement outside the persistence block: run_backtest
\* wraps everything after the date check in try/except, run_backtest_from_params
\* wraps nothing, so the exception leaves the call.
Escapes(entry, exc) ==
    IF entry = "run_backtest" THEN run_backtest_except(exc) ELSE [raised |-> exc]

\* what bt.run() hands back, as far as the entry points look at it: the rows of
\* _trades and the finite rows of _equity_curve
StatsSet == [trades : 0..MaxRows, equity : 0..MaxRows]

\* the three values of the returned dict, built from stats
BuildResponse(st) ==
    [metrics |-> [trades |-> st.trades],
     price_chart |-> [buy_signals |-> st.trades],
     equity_chart |-> [equity |-> st.equity]]

LoopIdle ==
    /\ args = None
    /\ df = << >>
    /\ i = 0
    /\ cash = 0
    /\ position = 0
    /\ equity_list = << >>
    /\ trades = << >>
    /\ pc = "idle"

InitRun ==
    /\ LoopIdle
    /\ MetIdle
    /\ BtIdle
    /\ FirstRun
    /\ given = << >>
    /\ req \in [entry : EntryPoints, startDate : Dates, endDate : Dates,
                strategy : StrategyNames]
    /\ rpc = "validate"
    /\ strategy_class = None
    /\ stats = None
    /\ response = None
    /\ outcome = None
    /\ db = [runs |-> 0, trades |-> 0, equity |-> 0]
    /\ reached = {}

Finish(result) ==
    /\ outcome' = result
    /\ rpc' = "done"

\* backtest.py 379-381, views.py 147-148
ValidateDates ==
    /\ rpc = "validate"
    /\ IF DatesInvalid(req.startDate, req.endDate)
       THEN Finish([error |-> "Start date must be before end date."])
       ELSE rpc' = "fetch" /\ UNCHANGED outcome
    /\ UNCHANGED <<sessVars, loopVars, metVars, btVars, req, strategy_class, stats, response, db, reached>>

\* backtest.py 385 with fetch_ohlcv 55-98, views.py 153-188: the download, the
\* fallback to Ticker.history, the column check. A raising or empty download
\* falls back; a raising or empty fallback, or a missing column, is an error
\* (raised as ValueError by fetch_ohlcv, returned by run_backtest_from_params).
Fetch ==
    /\ rpc = "fetch"
    /\ reached' = reached \cup {"fetch"}
    /\ \E download \in {"frame", "empty", "raises"},
          history \in {"frame", "empty", "raises"},
          columns \in {"complete", "missing"} :
          LET got == download = "frame" \/ history = "frame"
              msg == IF ~got THEN "Could not retrieve data for {ticker}."
                     ELSE "Incomplete data: missing column {col}"
          IN  IF got /\ columns = "complete"
              THEN rpc' = "resolve" /\ UNCHANGED outcome
              ELSE IF req.entry = "run_backtest"
                   THEN Finish(run_backtest_except("ValueError"))
                   ELSE Finish([error |-> msg])
    /\ UNCHANGED <<sessVars, loopVars, metVars, btVars, req, strategy_class, stats, response, db>>

\* backtest.py 388 and 132-134, views.py 190-203
ResolveStrategy ==
    /\ rpc = "resolve"
    /\ reached' = reached \cup {"resolve"}
    /\ LET cls == create_strategy(resolve_strategy_name(req.strategy))
       IN  /\ strategy_class' = cls
           /\ IF NotFound(cls)
              THEN IF req.entry = "run_backtest"
                   THEN Finish(run_backtest_except("ValueError"))
                   ELSE Finish([error |-> "Strategy {name} not found."])
              ELSE rpc' = "simulate" /\ UNCHANGED outcome
    /\ UNCHANGED <<sessVars, loopVars, metVars, btVars, req, stats, response, db>>

\* backtest.py 136-137, views.py 206-208: Backtest(...) and bt.run() return the
\* statistics or raise (the library rejects, for one, a frame with NaN prices)
Simulate ==
    /\ rpc = "simulate"
    /\ reached' = reached \cup {"simulate"}
    /\ \/ \E st \in StatsSet :
            /\ stats' = st
            /\ rpc' = "build"
            /\ UNCHANGED outcome
       \/ \E exc \in Exceptions \ {"DatabaseError"} :
            /\ Finish(Escapes(req.entry, exc))
            /\ UNCHANGED stats
    /\ UNCHANGED <<sessVars, loopVars, metVars, btVars, req, strategy_class, response, db>>

\* backtest.py 394-396, views.py 210-259: metrics and the two charts
BuildCharts ==
    /\ rpc = "build"
    /\ reached' = reached \cup {"build"}
    /\ \/ /\ response' = BuildResponse(stats)
          /\ rpc' = "persist_run"
          /\ UNCHANGED outcome
       \/ \E exc \in Exceptions \ {"DatabaseError"} :
            /\ Finish(Escapes(req.entry, exc))
            /\ UNCHANGED response
    /\ UNCHANGED <<sessVars, loopVars, metVars, btVars, req, strategy_class, stats, db>>

\* an exception inside the persistence try block
PersistFails(exc) ==
    IF PersistCatches(exc)
    THEN rpc' = "return" /\ UNCHANGED outcome
    ELSE Finish(Escapes(req.entry, exc))

\* backtest.py 250-263, views.py 263-276
PersistRun ==
    /\ rpc = "persist_run"
    /\ reached' = reached \cup {"persist"}
    /\ \/ /\ db' = [db EXCEPT !.runs = @ + 1]
          /\ rpc' = "persist_trades"
          /\ UNCHANGED outcome
       \/ PersistFails("DatabaseError") /\ UNCHANGED db
    /\ UNCHANGED <<sessVars, loopVars, metVars, btVars, req, strategy_class, stats, response>>

\* backtest.py 266-328, views.py 279-325: nothing is written for no rows
PersistTrades ==
    /\ rpc = "persist_trades"
    /\ \/ /\ db' = [db EXCEPT !.trades = @ + stats.trades]
          /\ rpc' = "persist_equity"
          /\ UNCHANGED outcome
       \/ /\ stats.trades > 0
          /\ PersistFails("DatabaseError")
          /\ UNCHANGED db
       \/ /\ stats.trades > 0
          /\ PersistFails("ValueError")
          /\ UNCHANGED db
    /\ UNCHANGED <<sessVars, loopVars, metVars, btVars, req, strategy_class, stats, response, reached>>

\* backtest.py 331-346, views.py 328-339
PersistEquity ==
    /\ rpc = "persist_equity"
    /\ \/ /\ db' = [db EXCEPT !.equity = @ + stats.equity]
          /\ rpc' = "return"
          /\ UNCHANGED outcome
       \/ /\ stats.equity > 0
          /\ PersistFails("DatabaseError")
          /\ UNCHANGED db
    /\ UNCHANGED <<sessVars, loopVars, metVars, btVars, req, strategy_class, stats, response, reached>>

\* backtest.py 410-414, views.py 344-348
Return ==
    /\ rpc = "return"
    /\ Finish(response)
    /\ UNCHANGED <<sessVars, loopVars, metVars, btVars, req, strategy_class, stats, response, db, reached>>

NextRun ==
    \/ ValidateDates
    \/ Fetch
    \/ ResolveStrategy
    \/ Simulate
    \/ BuildCharts
    \/ PersistRun
    \/ PersistTrades
    \/ PersistEquity
    \/ Return

SpecRun == InitRun /\ [][NextRun]_vars

----------------------------------------------------------------------------
(* compute_metrics and sanitize_series *)

MaxTrades == 2
MaxSeries == 3

\* A value as Python sees it: None, a NaN, an infinity, or a number, kept in
\* thousandths with the type that carries it.
NoneV == [k |-> "None", t |-> "NoneType", v |-> 0]
NaNV == [k |-> "nan", t |-> "float64", v |-> 0]
PosInf == [k |-> "inf", t |-> "float64", v |-> 0]
NegInf == [k |-> "-inf", t |-> "float64", v |-> 0]
Number(t, v) == [k |-> "num", t |-> t, v |-> v]

\* 12.346, -1.004, 0.0
SomeNumbers == {Number("float64", 12346), Number("float64", 0 - 1004), Number("float64", 0)}
ScalarValues == {NoneV, NaNV, PosInf, NegInf, Number("float64", 12346)}
SeriesValues == {NoneV, NaNV, PosInf, NegInf} \cup SomeNumbers

StatKeys ==
    {"Return [%]", "Return (Ann.) [%]", "Sharpe Ratio", "Max. Drawdown [%]",
     "# Trades", "Win Rate [%]"}

\* round(value, 2) on thousandths, ties to the even hundredth
Round2(x) ==
    LET q == x.v \div 10
        r == x.v % 10
        up == r > 5 \/ (r = 5 /\ q % 2 = 1)
    IN  [x EXCEPT !.v = IF up THEN (q + 1) * 10 ELSE q * 10]

NotFinite_NoNegInf(x) == x.k = "None" \/ x.k = "nan" \/ x.k = "inf"

\* value is None or np.isnan(value) or np.isinf(value)
NotFinite(x) == x.k = "None" \/ x.k = "nan" \/ x.k = "inf" \/ x.k = "-inf"

get_safe_metric_NoNaN(value) ==
    IF value.k = "None" \/ value.k = "inf" \/ value.k = "-inf" THEN Number("int", 0)
    ELSE Round2(value)

get_safe_metric(value) == IF NotFinite(value) THEN Number("int", 0) ELSE Round2(value)

\* int(x): truncation toward zero
IntOf(x) ==
    Number("int", IF x.v >= 0 THEN (x.v \div 1000) * 1000
                  ELSE 0 - (((0 - x.v) \div 1000) * 1000))

\* float(x)
FloatOf(x) == [x EXCEPT !.t = "float"]

compute_metrics(st) ==
    [total_return_pct |-> get_safe_metric(st["Return [%]"]),
     cagr_pct |-> get_safe_metric(st["Return (Ann.) [%]"]),
     sharpe |-> get_safe_metric(st["Sharpe Ratio"]),
     max_drawdown_pct |-> get_safe_metric(st["Max. Drawdown [%]"]),
     trades |-> IntOf(get_safe_metric(st["# Trades"])),
     winrate_pct |-> get_safe_metric(st["Win Rate [%]"])]

sanitize_series(xs) ==
    [j \in 1..Len(xs) |-> IF NotFinite(xs[j]) THEN NoneV ELSE FloatOf(xs[j])]

\* The statistics of a run that closed trades with the profits pnl: "# Trades"
\* counts them, "Win Rate [%]" is the share with pnl > 0 times 100 and NaN
\* for no trades; the other four are numbers or NaN.
Wins(pnl) == Cardinality({j \in 1..Len(pnl) : pnl[j] > 0})

RunStats(pnl, other) ==
    [key \in StatKeys |->
        CASE key = "# Trades" -> Number("int", Len(pnl) * 1000)
          [] key = "Win Rate [%]" ->
                IF Len(pnl) = 0 THEN NaNV
                ELSE Number("float64", (Wins(pnl) * 100000) \div Len(pnl))
          [] OTHER -> other]

PnlLists == UNION { [1..n -> {0 - 1, 0, 1}] : n \in 0..MaxTrades }
SeriesInputs == UNION { [1..n -> SeriesValues] : n \in 0..MaxSeries }

MetricsInputs ==
         [fn : {"compute_metrics"}, src : {"any"}, pnl : {<< >>},
          arg : [StatKeys -> ScalarValues]]
    \cup { [fn |-> "compute_metrics", src |-> "run", pnl |-> p, arg |-> RunStats(p, o)] :
              p \in PnlLists, o \in {NaNV, Number("float64", 12346)} }
    \cup [fn : {"sanitize_series"}, src : {"any"}, pnl : {<< >>}, arg : SeriesInputs]

InitMetrics ==
    /\ LoopIdle
    /\ RunIdle
    /\ BtIdle
    /\ FirstRun
    /\ given = << >>
    /\ minput \in MetricsInputs
    /\ moutput = << >>

CallComputeMetrics ==
    /\ minput.fn = "compute_metrics"
    /\ moutput = << >>
    /\ moutput' = <<compute_metrics(minput.arg)>>
    /\ UNCHANGED <<sessVars, loopVars, runVars, btVars, minput>>

CallSanitizeSeries ==
    /\ minput.fn = "sanitize_series"
    /\ moutput = << >>
    /\ moutput' = <<sanitize_series(minput.arg)>>
    /\ UNCHANGED <<sessVars, loopVars, runVars, btVars, minput>>

NextMetrics == CallComputeMetrics \/ CallSanitizeSeries

SpecMetrics == InitMetrics /\ [][NextMetrics]_vars

----------------------------------------------------------------------------
(* SmaCross and LaBomba under Backtest(df, strategy_class, cash, commission=0.0) *)
(*                                                                          *)
(* Prices and cash are in cents.  The frame is WarmupBars flat bars at      *)
(* BasePrice, as many as the strategy's slow window, followed by up to      *)
(* MaxTail free bars.  Backtest.run skips the bars on which an indicator is *)
(* still NaN and then, bar by bar, lets the broker process the pending      *)
(* orders and stops (broker.next) and calls the strategy's next().          *)
(* Orders are market orders for the whole available margin, filled at the   *)
(* next bar's Open; a trade's sl and tp are kept on the trade.              *)

MaxTail == 4

BasePrice == 10000
BtCloses == {9700, 9800, 10300, 10500}
BtOpens == {9800, 10350}
\* a bar's wick: above the body when positive, below it when negative
Wicks == {0 - 300, 0, 300}
BtCapitals == {25000}

SmaCross_n1 == 50
SmaCross_n2 == 100
LaBomba_n1 == 10
LaBomba_n2 == 50
\* in percent
LaBomba_stop_loss_pct == 1
LaBomba_take_profit_pct == 2
LaBomba_breakeven_pct == 1

StrategyClasses == {"SmaCross", "LaBomba"}

N1(cls) == IF cls = "SmaCross" THEN SmaCross_n1 ELSE LaBomba_n1
N2(cls) == IF cls = "SmaCross" THEN SmaCross_n2 ELSE LaBomba_n2

Min(a, b) == IF a <= b THEN a ELSE b
Max2(a, b) == IF a >= b THEN a ELSE b
Abs(x) == IF x >= 0 THEN x ELSE 0 - x

TailBar == [Open : BtOpens, Close : BtCloses, wick : Wicks]
\* No order can be pending and no trade open before the third free bar (the
\* averages are equal on the last flat bar, so nothing crosses on the first
\* free bar): the Open and the range of the first two are never read.
Tails ==
    UNION { { t \in [1..n -> TailBar] :
                \A k \in 1..n : k <= 2 => (t[k].Open = 9800 /\ t[k].wick = 0) } :
            n \in 1..MaxTail }

\* the series that stay at BasePrice after the warm-up as well
FlatBar == [Open : BtOpens, Close : {BasePrice}, wick : Wicks]
FlatTails == UNION { [1..n -> FlatBar] : n \in 1..MaxTail }

WarmupBars == N2(bt.strategy)
NBars == WarmupBars + Len(bt.tail)

\* row k of the frame
BarAt(k) ==
    IF k <= WarmupBars
    THEN [Open |-> BasePrice, High |-> BasePrice, Low |-> BasePrice, Close |-> BasePrice]
    ELSE LET b == bt.tail[k - WarmupBars]
         IN  [Open |-> b.Open, High |-> Max2(b.Open, b.Close) + Max2(b.wick, 0),
              Low |-> Min(b.Open, b.Close) + Min(b.wick, 0), Close |-> b.Close]

RECURSIVE CloseSum(_, _)
CloseSum(lo, hi) ==
    IF lo > hi THEN 0
    ELSE IF hi <= WarmupBars THEN (hi - lo + 1) * BasePrice
    ELSE BarAt(hi).Close + CloseSum(lo, hi - 1)

\* self.I(SMA, self.data.Close, n) at bar k: NaN, or the window's sum
SMA(n, k) == IF k < n THEN NaN ELSE Num(CloseSum(k - n + 1, k))

\* x / nx < y / ny for two rolling means; a comparison with NaN is false
Below(x, nx, y, ny) == ~x.nan /\ ~y.nan /\ x.sum * ny < y.sum * nx

crossover_NonStrict(na, nb, k) ==
    /\ k >= 2
    /\ ~Below(SMA(nb, k - 1), nb, SMA(na, k - 1), na)
    /\ ~Below(SMA(na, k), na, SMA(nb, k), nb)

\* crossover(SMA(na), SMA(nb)) at bar k: series1[-2] < series2[-2] and
\* series1[-1] > series2[-1]
crossover(na, nb, k) ==
    /\ k >= 2
    /\ Below(SMA(na, k - 1), na, SMA(nb, k - 1), nb)
    /\ Below(SMA(nb, k), nb, SMA(na, k), na)

RECURSIVE SizeSum(_, _)
SizeSum(ts, j) == IF j = 0 THEN 0 ELSE ts[j].size + SizeSum(ts, j - 1)

\* self.position: the sum of the open trades' sizes; falsy when it is 0
PositionSize(ts) == SizeSum(ts, Len(ts))

RECURSIVE PlSum(_, _, _)
PlSum(ts, j, price) ==
    IF j = 0 THEN 0
    ELSE ts[j].size * (price - ts[j].entry_price) + PlSum(ts, j - 1, price)

RECURSIVE ValueSum(_, _, _)
ValueSum(ts, j, price) ==
    IF j = 0 THEN 0 ELSE Abs(ts[j].size) * price + ValueSum(ts, j - 1, price)

\* the broker's equity and free margin at the bar's Close (leverage 1)
Equity(b, price) == b.cash + PlSum(b.trades, Len(b.trades), price)
MarginAvailable(b, price) ==
    Max2(0, Equity(b, price) - ValueSum(b.trades, Len(b.trades), price))

RemoveAt(seq, j) == [x \in 1..(Len(seq) - 1) |-> IF x < j THEN seq[x] ELSE seq[x + 1]]

\* close trade j at price on bar k: the trade leaves the open trades, a closed
\* trade is recorded and its profit is added to the cash
CloseTrade(b, j, price, k) ==
    LET t == b.trades[j]
        pl == t.size * (price - t.entry_price)
    IN  [b EXCEPT !.trades = RemoveAt(b.trades, j),
                  !.closed = Append(b.closed,
                      [size |-> t.size, entry_price |-> t.entry_price,
                       exit_price |-> price, entry_bar |-> t.entry_bar,
                       exit_bar |-> k, pl |-> pl]),
                  !.cash = b.cash + pl]

\* reduce trade j by part (same sign as the trade, smaller): the part is closed
ReduceTrade(b, j, part, price, k) ==
    LET t == b.trades[j]
        pl == part * (price - t.entry_price)
    IN  [b EXCEPT !.trades[j].size = t.size - part,
                  !.closed = Append(b.closed,
                      [size |-> part, entry_price |-> t.entry_price,
                       exit_price |-> price, entry_bar |-> t.entry_bar,
                       exit_bar |-> k, pl |-> pl]),
                  !.cash = b.cash + pl]

\* a stop order is hit when the bar's range reaches the stop price
StopHit(t, bar) == IF t.size > 0 THEN bar.Low <= t.sl ELSE bar.High >= t.sl
\* a limit order is hit when the bar's range reaches the limit price
LimitHit(t, bar) == IF t.size > 0 THEN bar.High >= t.tp ELSE bar.Low <= t.tp

\* The stop and limit orders of the open trades on bar k, each trade's stop
\* before its limit: a hit stop closes the trade at the stop price, or at the
\* Open when the bar opened beyond it; a hit limit at the limit price, or at
\* the Open when the bar opened beyond it.
RECURSIVE ProcessContingent(_, _, _)
ProcessContingent(b, j, k) ==
    IF j > Len(b.trades) THEN b
    ELSE LET t == b.trades[j]
             bar == BarAt(k)
         IN  IF t.sl # 0 /\ StopHit(t, bar)
             THEN ProcessContingent(
                      CloseTrade(b, j, IF t.size > 0 THEN Min(bar.Open, t.sl)
                                       ELSE Max2(bar.Open, t.sl), k), j, k)
             ELSE IF t.tp # 0 /\ LimitHit(t, bar)
             THEN ProcessContingent(
                      CloseTrade(b, j, IF t.size > 0 THEN Max2(bar.Open, t.tp)
                                       ELSE Min(bar.Open, t.tp), k), j, k)
             ELSE ProcessContingent(b, j + 1, k)

\* An order of the opposite direction first closes or reduces the open trades,
\* oldest first (hedging is off); r.need is what is left of it.
RECURSIVE Offset(_, _, _)
Offset(r, price, k) ==
    LET b == r.b
        opp == {j \in 1..Len(b.trades) : b.trades[j].size * r.need < 0}
    IN  IF r.need = 0 \/ opp = {} THEN r
        ELSE LET j == CHOOSE x \in opp : \A y \in opp : x <= y
                 t == b.trades[j]
             IN  IF Abs(r.need) >= Abs(t.size)
                 THEN Offset([b |-> CloseTrade(b, j, price, k), need |-> r.need + t.size],
                             price, k)
                 ELSE [b |-> ReduceTrade(b, j, 0 - r.need, price, k), need |-> 0]

\* size = 1 - epsilon of the margin: int((margin * size) // price)
FullEquitySize(margin, price) == IF margin >= 1 THEN (margin - 1) \div price ELSE 0

\* the stand-alone orders on bar k, in the order they were placed
RECURSIVE ProcessMarket(_, _)
ProcessMarket(b, k) ==
    IF Len(b.orders) = 0 THEN b
    ELSE LET o == Head(b.orders)
             bar == BarAt(k)
             rest == [b EXCEPT !.orders = Tail(b.orders)]
             size == FullEquitySize(MarginAvailable(b, bar.Close), bar.Open)
         IN  IF size = 0 THEN ProcessMarket(rest, k)
             ELSE LET r == Offset([b |-> rest, need |-> o.side * size], bar.Open, k)
                  IN  IF Abs(r.need) * bar.Open > MarginAvailable(r.b, bar.Close)
                      THEN ProcessMarket(r.b, k)
                      ELSE IF r.need = 0 THEN ProcessMarket(r.b, k)
                      ELSE ProcessMarket(
                               [r.b EXCEPT !.trades = Append(r.b.trades,
                                   [size |-> r.need, entry_price |-> bar.Open,
                                    entry_bar |-> k, sl |-> o.sl, tp |-> o.tp])], k)

\* _process_orders on bar k: the stops and limits of the open trades, the
\* stand-alone orders, and again the stops and limits for the trades just opened
ProcessOrders(b, k) == ProcessContingent(ProcessMarket(ProcessContingent(b, 1, k), k), 1, k)

RECURSIVE CloseAll(_, _, _)
CloseAll(b, price, k) ==
    IF Len(b.trades) = 0 THEN b ELSE CloseAll(CloseTrade(b, 1, price, k), price, k)

Broker == [orders |-> orders, trades |-> bt_trades, closed |-> closed_trades, cash |-> bt_cash]

InitBt ==
    /\ LoopIdle
    /\ RunIdle
    /\ MetIdle
    /\ FirstRun
    /\ given = << >>
    /\ bt \in [strategy : StrategyClasses, tail : Tails \cup FlatTails, cash : BtCapitals]
    /\ bi = N2(bt.strategy) + 1
    /\ orders = << >>
    /\ bt_trades = << >>
    /\ closed_trades = << >>
    /\ bt_cash = bt.cash
    /\ bt_equity = << >>
    /\ bpc = "broker"

\* broker.next() on bar bi: process the orders, mark the equity; with no equity
\* left every trade is closed at the Close and the run stops
BrokerNext ==
    /\ bpc = "broker"
    /\ bi <= NBars
    /\ LET b == ProcessOrders(Broker, bi)
           equity == Equity(b, BarAt(bi).Close)
           out == CloseAll(b, BarAt(bi).Close, bi)
       IN  IF equity <= 0
           THEN /\ orders' = out.orders
                /\ bt_trades' = out.trades
                /\ closed_trades' = out.closed
                /\ bt_cash' = 0
                /\ bt_equity' = Append(bt_equity, 0)
                /\ bpc' = "done"
           ELSE /\ orders' = b.orders
                /\ bt_trades' = b.trades
                /\ closed_trades' = b.closed
                /\ bt_cash' = b.cash
                /\ bt_equity' = Append(bt_equity, equity)
                /\ bpc' = "strategy"
    /\ UNCHANGED <<sessVars, loopVars, runVars, metVars, bt, bi>>

Order(side, sl, tp) == [side |-> side, sl |-> sl, tp |-> tp]

\* SmaCross.next
SmaCrossNext ==
    /\ bpc = "strategy"
    /\ bt.strategy = "SmaCross"
    /\ orders' =
         IF crossover(SmaCross_n1, SmaCross_n2, bi) THEN Append(orders, Order(1, 0, 0))
         ELSE IF crossover(SmaCross_n2, SmaCross_n1, bi) THEN Append(orders, Order(0 - 1, 0, 0))
         ELSE orders
    /\ bi' = bi + 1
    /\ bpc' = "broker"
    /\ UNCHANGED <<sessVars, loopVars, runVars, metVars, bt, bt_trades, closed_trades, bt_cash, bt_equity>>

BreakEven_Trailing(t, price) ==
    IF t.size > 0 /\ price * 100 >= t.entry_price * (100 + LaBomba_breakeven_pct)
    THEN [t EXCEPT !.sl = price]
    ELSE t

\* the break-even rule for one open trade at the bar's Close
BreakEven(t, price) ==
    LET gained == IF t.size > 0
                   THEN price * 100 >= t.entry_price * (100 + LaBomba_breakeven_pct)
                   ELSE t.entry_price * 100 >= price * (100 + LaBomba_breakeven_pct)
    IN  IF gained /\ t.size > 0 /\ t.sl < t.entry_price THEN [t EXCEPT !.sl = t.entry_price]
        ELSE IF gained /\ t.size < 0 /\ t.sl > t.entry_price THEN [t EXCEPT !.sl = t.entry_price]
        ELSE t

\* LaBomba.next
LaBombaNext ==
    /\ bpc = "strategy"
    /\ bt.strategy = "LaBomba"
    /\ LET price == BarAt(bi).Close
       IN  /\ bt_trades' = [j \in 1..Len(bt_trades) |-> BreakEven(bt_trades[j], price)]
           /\ orders' =
                IF PositionSize(bt_trades) # 0 THEN orders
                ELSE IF crossover(LaBomba_n1, LaBomba_n2, bi)
                THEN Append(orders, Order(1,
                         (price * (100 - LaBomba_stop_loss_pct)) \div 100,
                         (price * (100 + LaBomba_take_profit_pct)) \div 100))
                ELSE IF crossover(LaBomba_n2, LaBomba_n1, bi)
                THEN Append(orders, Order(0 - 1,
                         (price * (100 + LaBomba_stop_loss_pct)) \div 100,
                         (price * (100 - LaBomba_take_profit_pct)) \div 100))
                ELSE orders
    /\ bi' = bi + 1
    /\ bpc' = "broker"
    /\ UNCHANGED <<sessVars, loopVars, runVars, metVars, bt, closed_trades, bt_cash, bt_equity>>

\* the bars are exhausted
BtEnd ==
    /\ bpc = "broker"
    /\ bi > NBars
    /\ bpc' = "done"
    /\ UNCHANGED <<sessVars, loopVars, runVars, metVars, bt, bi, orders, bt_trades, closed_trades,
                   bt_cash, bt_equity>>

NextBt == BrokerNext \/ SmaCrossNext \/ LaBombaNext \/ BtEnd

SpecBt == InitBt /\ [][NextBt]_vars

----------------------------------------------------------------------------
(* Two runs on the same series, strategy and capital, one after the other.  *)
(* A call's locals and the objects Backtest builds are made anew by the     *)
(* second run; whatever else the first run left behind is still there.      *)

\* what simple_backtest returns: equity_df, trades, df, or the exception
LoopResult == [pc |-> pc, equity_df |-> equity_list, trades |-> trades, df |-> df]

\* what bt.run() leaves: the trades, the equity curve and the final cash
BtResult ==
    [trades |-> closed_trades, open |-> bt_trades, equity |-> bt_equity, cash |-> bt_cash]

\* simple_backtest is called again with the caller's arguments
Rerun ==
    /\ pc \in {"returned", "KeyError"}
    /\ run_no = 1
    /\ first' = <<LoopResult>>
    /\ run_no' = 2
    /\ pc' = "start"
    /\ UNCHANGED <<args, df, i, cash, position, equity_list, trades, given,
                   runVars, metVars, btVars>>

\* Backtest(df, strategy_class, cash=initial_cash, commission=0.0).run() again:
\* a new broker and a new strategy instance over the same frame and class
BtRerun ==
    /\ bpc = "done"
    /\ run_no = 1
    /\ first' = <<BtResult>>
    /\ run_no' = 2
    /\ bi' = N2(bt.strategy) + 1
    /\ orders' = << >>
    /\ bt_trades' = << >>
    /\ closed_trades' = << >>
    /\ bt_cash' = bt.cash
    /\ bt_equity' = << >>
    /\ bpc' = "broker"
    /\ UNCHANGED <<bt, given, loopVars, runVars, metVars>>

InitTwice == InitLoop \/ InitBt

NextTwice == NextLoop \/ NextBt \/ Rerun \/ BtRerun

SpecTwice == InitTwice /\ [][NextTwice]_vars

----------------------------------------------------------------------------
(* Properties of the fallback loop, checked under SpecLoop *)

Max(a, b) == IF a >= b THEN a ELSE b

\* C1: a run that returns has emitted exactly one equity point per bar of the
\* input price series, in the order of the bars, warm-up bars included.
C1_EquityPointPerBar ==
    pc = "returned" =>
        /\ Len(equity_list) = Len(args.df)
        /\ \A k \in 1..Len(equity_list) : equity_list[k].date = args.df[k].date

\* C3: every run ends with no open position: whatever was held at the last bar
\* has been sold there.
C3_RunEndsAwaitingEntry ==
    pc = "returned" => position = 0

\* C6: with fewer bars than the longest moving-average window the run neither
\* fails after the bar loop nor returns a normal result.
C6_ShortSeriesFailsFast ==
    (pc # "idle" /\ Len(args.df) >= 1 /\ Len(args.df) < Max(args.n1, args.n2))
        => pc \notin {"KeyError", "returned"}

\* the records of trades with the given type
TradesOfType(ty) == SelectSeq(trades, LAMBDA t : t.type = ty)

\* C13: on ten strictly increasing bars with windows 2 and 4 the returned run
\* has entered exactly once and has closed that position on the last bar: one
\* buy, one sell dated with the last bar, and no units left.
C13_RisingSeriesOneTrade ==
    (pc = "returned" /\ args = ScenarioB) =>
        /\ Len(TradesOfType("buy")) = 1
        /\ Len(TradesOfType("sell")) = 1
        /\ trades[Len(trades)].type = "sell"
        /\ trades[Len(trades)].date = args.df[Len(args.df)].date
        /\ position = 0

\* the fast average lies above the slow one at bar b of the series passed in
FastAbove(b) ==
    SumTo(args.df, b - args.n1 + 1, b) * args.n2 > SumTo(args.df, b - args.n2 + 1, b) * args.n1

\* crossover(fast, slow) at bar b: both averages exist at b and at b - 1, the
\* fast one is above the slow one at b and was not at b - 1
CrossoverAt(b) ==
    /\ b >= 2
    /\ b - 1 >= args.n1
    /\ b - 1 >= args.n2
    /\ FastAbove(b)
    /\ ~FastAbove(b - 1)

\* C17: in the loop the buy signal (position_change = 1) is raised on a row
\* exactly when the fast average crosses over the slow one at that bar, which
\* needs both averages at that bar and at the one before; every buy is dated
\* with such a bar.
C17_BuySignalIsCrossover ==
    (pc \in {"loop", "build", "returned", "KeyError"}) =>
        /\ \A k \in 1..Len(df) : (df[k].position_change = 1) <=> CrossoverAt(df[k].date)
        /\ \A k \in 1..Len(trades) : trades[k].type = "buy" => CrossoverAt(trades[k].date)

C17_Witness ==
    /\ pc = "returned"
    /\ df[1].signal = 1
    /\ Len(TradesOfType("buy")) >= 1

\* cash and units held before the fills of row k
CashBefore(k) == IF k = 1 THEN args.initial_cash * 100 ELSE equity_list[k - 1].cash
PositionBefore(k) == IF k = 1 THEN 0 ELSE equity_list[k - 1].position

\* C18: every equity point is cash + position * Close of its bar after the
\* bar's fills, and without commission it equals the holdings before the fills
\* valued at the same Close.
C18_EquityMarkedAtFillPrice ==
    (pc \in {"loop", "build", "returned", "KeyError"}) =>
        \A k \in 1..Len(equity_list) :
            LET e == equity_list[k]
            IN  /\ e.equity = e.cash + e.position * df[k].Close * 100
                /\ args.commission = 0 =>
                      e.equity = CashBefore(k) + PositionBefore(k) * df[k].Close * 100

\* floor(cash * (1 - commission) / execution_price) for row k
UnitsAt(k) == (CashBefore(k) * (100 - args.commission)) \div (10000 * ExecPrice(df, k))

\* C19: on a row with a buy signal the loop adds floor(cash * (1 - commission)
\* / execution_price) units, or leaves cash and position as they were when that
\* is zero; cash is never negative after a bar.
C19_FloorSizingCashNonNegative ==
    (pc \in {"loop", "build", "returned", "KeyError"}) =>
        /\ cash >= 0
        /\ \A k \in 1..Len(equity_list) :
              LET e == equity_list[k]
              IN  /\ e.cash >= 0
                  /\ df[k].position_change = 1 =>
                        IF UnitsAt(k) = 0
                        THEN e.cash = CashBefore(k) /\ e.position = PositionBefore(k)
                        ELSE /\ e.position = PositionBefore(k) + UnitsAt(k)
                             /\ e.cash = CashBefore(k)
                                  - UnitsAt(k) * ExecPrice(df, k) * (100 + args.commission)

C19_Witness ==
    /\ pc = "returned"
    /\ args.commission > 0
    /\ Len(TradesOfType("buy")) >= 1
    /\ \E k \in 1..Len(equity_list) : df[k].position_change = 1 /\ UnitsAt(k) = 0

\* C20: the loop never holds a negative number of units; the recorded trades
\* alternate buy, sell, buy, ... starting with a buy, each sell is of the whole
\* holding bought before it and leaves no units.
C20_TradesAlternate ==
    (pc \in {"loop", "build", "returned", "KeyError"}) =>
        /\ position >= 0
        /\ \A k \in 1..Len(equity_list) : equity_list[k].position >= 0
        /\ \A j \in 1..Len(trades) :
              IF j % 2 = 1
              THEN trades[j].type = "buy" /\ trades[j].shares > 0
              ELSE trades[j].type = "sell" /\ trades[j].shares = trades[j - 1].shares
        /\ position = IF Len(trades) % 2 = 1 THEN trades[Len(trades)].shares ELSE 0

C20_Witness ==
    /\ pc = "returned"
    /\ Len(trades) >= 4

----------------------------------------------------------------------------
(* Properties of the strategies, checked under SpecBt *)

\* C2: a strategy places an order only while no position is open, so an order
\* is never pending on top of an open position.
C2_EntryOnlyWhenFlat ==
    Len(orders) > 0 => PositionSize(bt_trades) = 0

\* C14: an open long LaBomba trade whose stop has not been moved to the entry
\* price has its stop at entry_price * (1 - stop_loss_pct), entry_price being
\* the price the trade was filled at.
C14_StopFromFillPrice ==
    (bpc # "idle" /\ bt.strategy = "LaBomba") =>
        \A j \in 1..Len(bt_trades) :
            (bt_trades[j].size > 0 /\ bt_trades[j].sl # bt_trades[j].entry_price) =>
                bt_trades[j].sl * 100 =
                    bt_trades[j].entry_price * (100 - LaBomba_stop_loss_pct)

\* the direction-aware gain of trade t at price is at least breakeven_pct
GainReached(t, price) ==
    IF t.size > 0
    THEN price * 100 >= t.entry_price * (100 + LaBomba_breakeven_pct)
    ELSE t.entry_price * 100 >= price * (100 + LaBomba_breakeven_pct)

\* the stop of trade t lies on the losing side of its entry price
StopOnLosingSide(t) ==
    IF t.size > 0 THEN t.sl < t.entry_price ELSE t.sl > t.entry_price

\* what LaBomba.next does to the open trades on one bar
RatchetStep ==
    (bpc = "strategy" /\ bt.strategy = "LaBomba") =>
        /\ Len(bt_trades') = Len(bt_trades)
        /\ \A j \in 1..Len(bt_trades) :
              LET t == bt_trades[j]
                  u == bt_trades'[j]
              IN  /\ u.tp = t.tp
                  /\ u.entry_price = t.entry_price
                  /\ u.sl = IF GainReached(t, BarAt(bi).Close) /\ StopOnLosingSide(t)
                            THEN t.entry_price ELSE t.sl

\* what any step of the run does to a trade that stays open
RatchetLife ==
    (bpc # "idle" /\ bt.strategy = "LaBomba") =>
        \A j \in 1..Len(bt_trades) : \A k \in 1..Len(bt_trades') :
            LET t == bt_trades[j]
                u == bt_trades'[k]
            IN  (u.entry_bar = t.entry_bar /\ u.size * t.size > 0) =>
                    /\ u.tp = t.tp
                    /\ t.size > 0 => u.sl >= t.sl
                    /\ t.size < 0 => u.sl <= t.sl
                    /\ u.sl # t.sl => u.sl = t.entry_price

\* C16: on each bar LaBomba.next sets a trade's stop to the entry price when
\* the gain has reached breakeven_pct and the stop is on the losing side, and
\* leaves it otherwise; while a trade is open its stop only moves toward the
\* entry price, never past it, and its take-profit never changes.
C16_BreakEvenRatchet == [][RatchetStep /\ RatchetLife]_vars

C16_Witness ==
    /\ bpc # "idle"
    /\ bt.strategy = "LaBomba"
    /\ \E j \in 1..Len(bt_trades) :
          /\ bt_trades[j].size < 0
          /\ bt_trades[j].sl = bt_trades[j].entry_price

----------------------------------------------------------------------------
(* Properties of two runs on the same input, checked under SpecTwice *)

\* C11: a second run on the same series, strategy and capital returns what the
\* first returned (trades, equity curve, final cash, or the same exception), and
\* the caller's series is at every moment the series that was passed in.
C11_SecondRunIdentical ==
    /\ (run_no = 2 /\ pc \in {"returned", "KeyError"}) => LoopResult = first[1]
    /\ (run_no = 2 /\ bpc = "done") => BtResult = first[1]
    /\ pc # "idle" => args.df = given

C11_Witness ==
    /\ run_no = 2
    /\ pc = "returned"
    /\ Len(trades) >= 2
    /\ Len(args.df) > Len(df)

\* every bar of the series passed to simple_backtest has the same Close
FlatLoop == pc # "idle" /\ \A k \in 1..Len(args.df) : args.df[k].Close = args.df[1].Close

\* every bar of the series passed to Backtest has the same Close
FlatBt == bpc # "idle" /\ \A k \in 1..Len(bt.tail) : bt.tail[k].Close = BasePrice

\* C12: on a series whose bars all have the same Close no order is placed, no
\* position is opened, no trade is recorded and every equity point equals the
\* starting capital (so the return is 0), in the loop and under both strategies.
C12_FlatSeriesNoTrades ==
    /\ FlatLoop =>
          /\ trades = << >>
          /\ position = 0
          /\ \A k \in 1..Len(equity_list) : equity_list[k].equity = args.initial_cash * 100
    /\ FlatBt =>
          /\ orders = << >>
          /\ bt_trades = << >>
          /\ closed_trades = << >>
          /\ \A k \in 1..Len(bt_equity) : bt_equity[k] = bt.cash

C12_Witness ==
    /\ FlatBt
    /\ bpc = "done"
    /\ Len(bt_equity) = MaxTail

----------------------------------------------------------------------------
(* Properties of the entry points, checked under SpecRun *)

NoRows == [runs |-> 0, trades |-> 0, equity |-> 0]

\* the canonical identifiers with a strategy class in core/strategies
RegisteredIds == {"sma_cross", "la_bomba"}

ErrorOnly(o) == DOMAIN o = {"error"}
ResultShape(o) == DOMAIN o = {"metrics", "price_chart", "equity_chart"}

\* C4: when the normalised strategy identifier has no registered definition,
\* no simulation, chart or persistence step is ever entered, nothing is
\* persisted, and the call ends with only an error object.
C4_UnknownStrategyOnlyError ==
    (rpc # "idle" /\ resolve_strategy_name(req.strategy) \notin RegisteredIds) =>
        /\ reached \subseteq {"fetch", "resolve"}
        /\ db = NoRows
        /\ rpc = "done" => ErrorOnly(outcome)

C4_Witness ==
    /\ rpc = "done"
    /\ req.strategy = "RSI"
    /\ "resolve" \in reached
    /\ ErrorOnly(outcome)

\* C5: in both entry points a call with start date >= end date goes from the
\* date check straight to returning the error object: no fetch, no strategy
\* resolution, no simulation and no persistence step is reached.
C5_BadDatesNothingHappens ==
    (rpc # "idle" /\ req.startDate >= req.endDate) =>
        /\ rpc \in {"validate", "done"}
        /\ reached = {}
        /\ db = NoRows
        /\ rpc = "done" => outcome = [error |-> "Start date must be before end date."]

C5_Witness ==
    /\ rpc = "done"
    /\ req.startDate = req.endDate
    /\ req.entry = "run_backtest_from_params"
    /\ ErrorOnly(outcome)

\* C7: once the persistence block has been entered, the caller receives the
\* metrics and charts built before it, whichever persistence step failed.
C7_PersistenceNeverChangesResult ==
    (rpc = "done" /\ "persist" \in reached) =>
        /\ ResultShape(outcome)
        /\ outcome = BuildResponse(stats)

\* the run record was written and the bulk insert of the trades failed
C7_Witness ==
    /\ rpc = "done"
    /\ "persist" \in reached
    /\ db.runs = 1
    /\ stats.trades > 0
    /\ db.trades = 0
    /\ ResultShape(outcome)

\* C8: a call ends in one of two shapes, an error-only object or a result
\* with metrics, price chart and equity chart, and never by raising.
C8_TwoShapesNeverRaises ==
    rpc = "done" => (ErrorOnly(outcome) \/ ResultShape(outcome))

\* the identifiers the alias table maps to
CanonicalIds == { STRATEGY_MAP[n] : n \in DOMAIN STRATEGY_MAP }

\* C15: once the strategy has been resolved, a name whose canonical identifier
\* is one the alias table produces has a strategy class.
C15_CanonicalIdsResolve ==
    ("resolve" \in reached /\ resolve_strategy_name(req.strategy) \in CanonicalIds) =>
        strategy_class # None

----------------------------------------------------------------------------
(* Properties of compute_metrics and sanitize_series, checked under SpecMetrics *)

NonFiniteKinds == {"None", "nan", "inf", "-inf"}

MetricStat ==
    {<<"total_return_pct", "Return [%]">>, <<"cagr_pct", "Return (Ann.) [%]">>,
     <<"sharpe", "Sharpe Ratio">>, <<"max_drawdown_pct", "Max. Drawdown [%]">>,
     <<"trades", "# Trades">>, <<"winrate_pct", "Win Rate [%]">>}

\* C9: every scalar metric compute_metrics returns is a finite number, 0 where
\* the statistic was None, NaN or an infinity; sanitize_series keeps length and
\* order, turns None, NaN and the infinities into None and keeps every number.
C9_SanitisationRemovesNonFinite ==
    Len(moutput) = 1 =>
        LET in == minput.arg
            out == moutput[1]
        IN  IF minput.fn = "compute_metrics"
            THEN \A ms \in MetricStat :
                    /\ out[ms[1]].k = "num"
                    /\ in[ms[2]].k \in NonFiniteKinds => out[ms[1]].v = 0
            ELSE /\ Len(out) = Len(in)
                 /\ \A j \in 1..Len(in) :
                        IF in[j].k \in NonFiniteKinds
                        THEN out[j] = NoneV
                        ELSE out[j].k = "num" /\ out[j].v = in[j].v

C9_Witness ==
    /\ Len(moutput) = 1
    /\ minput.fn = "compute_metrics"
    /\ minput.arg["Sharpe Ratio"].k = "nan"
    /\ minput.arg["Return [%]"].k = "-inf"
    /\ minput.arg["Win Rate [%]"].k = "None"
    /\ moutput[1].sharpe.v = 0

\* C10: for the statistics of a run, the reported win rate lies in [0, 100];
\* with no closed trade it is 0 and the reported trade count is 0.
C10_WinRateBounded ==
    (Len(moutput) = 1 /\ minput.fn = "compute_metrics" /\ minput.src = "run") =>
        LET m == moutput[1]
        IN  /\ m.winrate_pct.k = "num"
            /\ 0 <= m.winrate_pct.v /\ m.winrate_pct.v <= 100000
            /\ Len(minput.pnl) = 0 => (m.winrate_pct.v = 0 /\ m.trades.v = 0)

C10_Witness ==
    /\ Len(moutput) = 1
    /\ minput.fn = "compute_metrics"
    /\ minput.src = "run"
    /\ Len(minput.pnl) = 0
    /\ moutput[1].winrate_pct = Number("int", 0)

====
